---- MODULE Spec2Model ----
(***************************************************************************)
(* Model of the frame-rate crate (src/src/lib.rs): the FrameRate enum, its *)
(* conversions to and from Ratio<u32>, FrameRate::new, the derived         *)
(* equality and the serde Serialize / Deserialize implementations.         *)
(*                                                                         *)
(* The crate is a set of pure functions.  They are operators here; the     *)
(* state machine is a caller that builds a value (a named constant, the    *)
(* custom variant, FrameRate::new, a Ratio, or a record received from      *)
(* outside) and then applies the crate's operations to what it holds.      *)
(* Numbers in the model stay far below 2^31; the code performs no          *)
(* arithmetic that can wrap (only gcd and exact division).                 *)
(***************************************************************************)
EXTENDS Integers, Sequences, FiniteSets, TLC

VARIABLES
  fr,        \* Option<FrameRate>: the frame rate the caller holds
  ratio,     \* Option<Ratio<u32>>: the rational the caller holds
  record,    \* Option<SerializeRational>: the serialized record
  op,        \* the operation last applied
  outcome,   \* "ok", "err" (an Err result) or "panic" of that operation
  frOf,      \* history: the call that produced fr, its argument, its source
  ratioOf,   \* history: the FrameRate that ratio was converted from
  recordOf,  \* history: the FrameRate that record was serialized from
  cmp        \* operands and result of the last ==

vars == <<fr, ratio, record, op, outcome, frOf, ratioOf, recordOf, cmp>>

(* ----------------------------- bounds ---------------------------------- *)

\* numerators and denominators 0..MaxSmall are tried exhaustively
MaxSmall == 9

\* every named pair (and its inverse) is tried multiplied by 1..MaxScale
MaxScale == 4

(* ------------------------- Option<T> values ---------------------------- *)

None == <<>>

Some(x) == <<x>>

(* --------------------------- Ratio<u32> -------------------------------- *)

\* Ratio::new_raw: the pair as given
Ratio(n, d) == [numer |-> n, denom |-> d]

RECURSIVE GCD(_, _)
GCD(a, b) == IF b = 0 THEN a ELSE GCD(b, a % b)

\* Ratio::reduce, for a non-zero denominator
Reduce(r) ==
  IF r.numer = 0 THEN Ratio(0, 1)
  ELSE IF r.numer = r.denom THEN Ratio(1, 1)
  ELSE LET g == GCD(r.numer, r.denom)
       IN  Ratio(r.numer \div g, r.denom \div g)

\* Ratio::new panics with "denominator == 0"
RatioNewPanics(n, d) == d = 0

\* Ratio::new(n, d) for d # 0
RatioNew(n, d) == Reduce(Ratio(n, d))

\* Ratio::from_integer
RatioFromInteger(n) == Ratio(n, 1)

\* Ratio's PartialEq is cmp(..) == Equal; cmp compares the integer parts and
\* then recurses on the reciprocals of the fractional parts.
RECURSIVE RatioEq(_, _)
RatioEq(a, b) ==
  IF a.denom = b.denom THEN a.numer = b.numer
  ELSE IF a.numer = b.numer THEN a.numer = 0
  ELSE LET aInt == a.numer \div a.denom
           aRem == a.numer % a.denom
           bInt == b.numer \div b.denom
           bRem == b.numer % b.denom
       IN  /\ aInt = bInt
           /\ \/ aRem = 0 /\ bRem = 0
              \/ /\ aRem # 0
                 /\ bRem # 0
                 /\ RatioEq(Ratio(a.denom, aRem), Ratio(b.denom, bRem))

(* ---------------------------- FrameRate -------------------------------- *)

NamedTags ==
  {"_24_00", "_25_00", "_30_00", "_50_00", "_60_00", "_120_00",
   "_23_97", "_24_97", "_29_97", "_59_94"}

\* the payload slot of a variant that carries no data
NoPayload == Ratio(0, 0)

Named(t) == [tag |-> t, rational |-> NoPayload]

FrCustom(r) == [tag |-> "FrCustom", rational |-> r]

\* #[derive(PartialEq)]: same variant, and equal payloads for FrCustom
FrameRateEq(a, b) ==
  /\ a.tag = b.tag
  /\ a.tag = "FrCustom" => RatioEq(a.rational, b.rational)

\* a bug: the _24_97 arm copied from the _23_97 arm without changing the rate
RatioFromFrameRateCopied(frame_rate) ==
  CASE frame_rate.tag = "_24_00"  -> RatioFromInteger(24)
    [] frame_rate.tag = "_25_00"  -> RatioFromInteger(25)
    [] frame_rate.tag = "_30_00"  -> RatioFromInteger(30)
    [] frame_rate.tag = "_50_00"  -> RatioFromInteger(50)
    [] frame_rate.tag = "_60_00"  -> RatioFromInteger(60)
    [] frame_rate.tag = "_120_00" -> RatioFromInteger(120)
    [] frame_rate.tag = "_23_97"  -> RatioNew(24000, 1001)
    [] frame_rate.tag = "_24_97"  -> RatioNew(24000, 1001)
    [] frame_rate.tag = "_29_97"  -> RatioNew(30000, 1001)
    [] frame_rate.tag = "_59_94"  -> RatioNew(60000, 1001)
    [] frame_rate.tag = "FrCustom" -> frame_rate.rational

\* a bug: the _59_94 arm divides by 1000 instead of 1001
RatioFromFrameRateTypo(frame_rate) ==
  CASE frame_rate.tag = "_24_00"  -> RatioFromInteger(24)
    [] frame_rate.tag = "_25_00"  -> RatioFromInteger(25)
    [] frame_rate.tag = "_30_00"  -> RatioFromInteger(30)
    [] frame_rate.tag = "_50_00"  -> RatioFromInteger(50)
    [] frame_rate.tag = "_60_00"  -> RatioFromInteger(60)
    [] frame_rate.tag = "_120_00" -> RatioFromInteger(120)
    [] frame_rate.tag = "_23_97"  -> RatioNew(24000, 1001)
    [] frame_rate.tag = "_24_97"  -> RatioNew(25000, 1001)
    [] frame_rate.tag = "_29_97"  -> RatioNew(30000, 1001)
    [] frame_rate.tag = "_59_94"  -> RatioNew(60000, 1000)
    [] frame_rate.tag = "FrCustom" -> frame_rate.rational

\* impl From<FrameRate> for Ratio<u32>
RatioFromFrameRate(frame_rate) ==
  CASE frame_rate.tag = "_24_00"  -> RatioFromInteger(24)
    [] frame_rate.tag = "_25_00"  -> RatioFromInteger(25)
    [] frame_rate.tag = "_30_00"  -> RatioFromInteger(30)
    [] frame_rate.tag = "_50_00"  -> RatioFromInteger(50)
    [] frame_rate.tag = "_60_00"  -> RatioFromInteger(60)
    [] frame_rate.tag = "_120_00" -> RatioFromInteger(120)
    [] frame_rate.tag = "_23_97"  -> RatioNew(24000, 1001)
    [] frame_rate.tag = "_24_97"  -> RatioNew(25000, 1001)
    [] frame_rate.tag = "_29_97"  -> RatioNew(30000, 1001)
    [] frame_rate.tag = "_59_94"  -> RatioNew(60000, 1001)
    [] frame_rate.tag = "FrCustom" -> frame_rate.rational

\* a bug: the (120, 1) arm is missing
FrameRateFromRatioMissingArm(rational) ==
  LET p == <<rational.numer, rational.denom>>
  IN  CASE p = <<24, 1>>       -> Named("_24_00")
        [] p = <<25, 1>>       -> Named("_25_00")
        [] p = <<30, 1>>       -> Named("_30_00")
        [] p = <<50, 1>>       -> Named("_50_00")
        [] p = <<60, 1>>       -> Named("_60_00")
        [] p = <<24000, 1001>> -> Named("_23_97")
        [] p = <<25000, 1001>> -> Named("_24_97")
        [] p = <<30000, 1001>> -> Named("_29_97")
        [] p = <<60000, 1001>> -> Named("_59_94")
        [] OTHER               -> FrCustom(rational)

\* a bug: the (30000, 1001) arm returns the 59.94 constant
FrameRateFromRatioWrongArm(rational) ==
  LET p == <<rational.numer, rational.denom>>
  IN  CASE p = <<24, 1>>       -> Named("_24_00")
        [] p = <<25, 1>>       -> Named("_25_00")
        [] p = <<30, 1>>       -> Named("_30_00")
        [] p = <<50, 1>>       -> Named("_50_00")
        [] p = <<60, 1>>       -> Named("_60_00")
        [] p = <<120, 1>>      -> Named("_120_00")
        [] p = <<24000, 1001>> -> Named("_23_97")
        [] p = <<25000, 1001>> -> Named("_24_97")
        [] p = <<30000, 1001>> -> Named("_59_94")
        [] p = <<60000, 1001>> -> Named("_59_94")
        [] OTHER               -> FrCustom(rational)

\* impl From<Ratio<u32>> for FrameRate
FrameRateFromRatio(rational) ==
  LET p == <<rational.numer, rational.denom>>
  IN  CASE p = <<24, 1>>       -> Named("_24_00")
        [] p = <<25, 1>>       -> Named("_25_00")
        [] p = <<30, 1>>       -> Named("_30_00")
        [] p = <<50, 1>>       -> Named("_50_00")
        [] p = <<60, 1>>       -> Named("_60_00")
        [] p = <<120, 1>>      -> Named("_120_00")
        [] p = <<24000, 1001>> -> Named("_23_97")
        [] p = <<25000, 1001>> -> Named("_24_97")
        [] p = <<30000, 1001>> -> Named("_29_97")
        [] p = <<60000, 1001>> -> Named("_59_94")
        [] OTHER               -> FrCustom(rational)

\* a bug: the rational is built with Ratio::new_raw, which does not reduce
FrameRateNewRaw(num, den) == FrameRateFromRatio(Ratio(num, den))

\* FrameRate::new(num, den) for den # 0 (Ratio::new panics otherwise)
FrameRateNew(num, den) == FrameRateFromRatio(RatioNew(num, den))

(* ------------------------ SerializeRational ---------------------------- *)

SerializeRational(n, d) == [num |-> n, den |-> d]

\* a bug: the two fields are swapped
SerializeRationalFromRatioSwapped(rational) ==
  SerializeRational(rational.denom, rational.numer)

\* impl From<Ratio<u32>> for SerializeRational
SerializeRationalFromRatio(rational) ==
  SerializeRational(rational.numer, rational.denom)

\* a bug: the rational is built with Ratio::new_raw, which does not reduce
RatioFromSerializeRationalRaw(serialize_rational) ==
  Ratio(serialize_rational.num, serialize_rational.den)

\* impl From<SerializeRational> for Ratio<u32>, for den # 0
RatioFromSerializeRational(serialize_rational) ==
  RatioNew(serialize_rational.num, serialize_rational.den)

\* impl Serialize for FrameRate: the record handed to the serializer
SerializeValue(frame_rate) ==
  SerializeRationalFromRatio(RatioFromFrameRate(frame_rate))

\* the derived Deserialize of SerializeRational rejects a field that is no u32
IsU32(x) == x \in Nat

ParseFails(rec) == ~IsU32(rec.num) \/ ~IsU32(rec.den)

\* impl Deserialize for FrameRate, for a record that parses and has den # 0
DeserializeValue(rec) == FrameRateFromRatio(RatioFromSerializeRational(rec))

(* ------------------------------ inputs --------------------------------- *)

BroadcastPairs ==
  {<<24, 1>>, <<25, 1>>, <<30, 1>>, <<50, 1>>, <<60, 1>>, <<120, 1>>,
   <<24000, 1001>>, <<25000, 1001>>, <<30000, 1001>>, <<60000, 1001>>}

\* the (numerator, denominator) arguments the caller passes
Pairs ==
  ((0..MaxSmall) \X (0..MaxSmall))
    \cup {<<k * p[1], k * p[2]>> : k \in 1..MaxScale, p \in BroadcastPairs}
    \cup {<<k * p[2], k * p[1]>> : k \in 1..MaxScale, p \in BroadcastPairs}

\* the field values of a record received from outside; -1 is no u32
RecordPairs == Pairs \cup {<<-1, 1>>, <<1, -1>>, <<-1, 0>>}

NoArg == <<0, 0>>

Origin(by, arg, of) == [by |-> by, arg |-> arg, of |-> of]

(* ------------------------------ state ---------------------------------- *)

\* A behaviour is one computation of the caller: it starts from one value it
\* builds or receives (op = "init" until then) and applies the crate's
\* operations to the values it holds, in any order and any number of times.

Init ==
  /\ fr = None
  /\ ratio = None
  /\ record = None
  /\ op = "init"
  /\ outcome = "ok"
  /\ frOf = Origin("none", NoArg, None)
  /\ ratioOf = None
  /\ recordOf = None
  /\ cmp = None

\* the caller writes one of the ten named constants
ConstructNamed ==
  \E t \in NamedTags :
    /\ op = "init"
    /\ fr' = Some(Named(t))
    /\ frOf' = Origin("named", NoArg, None)
    /\ ratio' = None /\ ratioOf' = None
    /\ record' = None /\ recordOf' = None
    /\ op' = "named" /\ outcome' = "ok" /\ cmp' = None

\* the caller writes FrameRate::FrCustom(Ratio::new(n, d))
ConstructCustom ==
  \E p \in Pairs :
    /\ op = "init"
    /\ IF RatioNewPanics(p[1], p[2])
       THEN fr' = None /\ outcome' = "panic"
       ELSE fr' = Some(FrCustom(RatioNew(p[1], p[2]))) /\ outcome' = "ok"
    /\ frOf' = Origin("custom", p, None)
    /\ ratio' = None /\ ratioOf' = None
    /\ record' = None /\ recordOf' = None
    /\ op' = "custom" /\ cmp' = None

\* FrameRate::new(n, d)
New ==
  \E p \in Pairs :
    /\ op = "init"
    /\ IF RatioNewPanics(p[1], p[2])
       THEN fr' = None /\ outcome' = "panic"
       ELSE fr' = Some(FrameRateNew(p[1], p[2])) /\ outcome' = "ok"
    /\ frOf' = Origin("new", p, None)
    /\ ratio' = None /\ ratioOf' = None
    /\ record' = None /\ recordOf' = None
    /\ op' = "new" /\ cmp' = None

\* the caller builds a rational with Ratio::new(n, d)
NewRatio ==
  \E p \in Pairs :
    /\ op = "init"
    /\ IF RatioNewPanics(p[1], p[2])
       THEN ratio' = None /\ outcome' = "panic"
       ELSE ratio' = Some(RatioNew(p[1], p[2])) /\ outcome' = "ok"
    /\ ratioOf' = None
    /\ fr' = None /\ frOf' = Origin("none", NoArg, None)
    /\ record' = None /\ recordOf' = None
    /\ op' = "ratio" /\ cmp' = None

\* a record {num, den} arrives from outside
ReceiveRecord ==
  \E p \in RecordPairs :
    /\ op = "init"
    /\ record' = Some(SerializeRational(p[1], p[2]))
    /\ recordOf' = None
    /\ fr' = None /\ frOf' = Origin("none", NoArg, None)
    /\ ratio' = None /\ ratioOf' = None
    /\ op' = "record" /\ outcome' = "ok" /\ cmp' = None

\* a panic unwinds the caller: nothing runs after it
Running == outcome # "panic"

\* Ratio::<u32>::from(frame_rate)
ToRational ==
  /\ Running
  /\ fr # None
  /\ ratio' = Some(RatioFromFrameRate(fr[1]))
  /\ ratioOf' = fr
  /\ op' = "to_rational" /\ outcome' = "ok" /\ cmp' = None
  /\ UNCHANGED <<fr, frOf, record, recordOf>>

\* FrameRate::from(rational)
Normalize ==
  /\ Running
  /\ ratio # None
  /\ fr' = Some(FrameRateFromRatio(ratio[1]))
  /\ frOf' = Origin("normalize", <<ratio[1].numer, ratio[1].denom>>, ratioOf)
  /\ op' = "normalize" /\ outcome' = "ok" /\ cmp' = None
  /\ UNCHANGED <<ratio, ratioOf, record, recordOf>>

\* frame_rate.serialize(serializer)
Serialize ==
  /\ Running
  /\ fr # None
  /\ record' = Some(SerializeValue(fr[1]))
  /\ recordOf' = fr
  /\ op' = "serialize" /\ outcome' = "ok" /\ cmp' = None
  /\ UNCHANGED <<fr, frOf, ratio, ratioOf>>

\* FrameRate::deserialize(deserializer)
Deserialize ==
  /\ Running
  /\ record # None
  /\ IF ParseFails(record[1])
     THEN fr' = None /\ outcome' = "err"
     ELSE IF RatioNewPanics(record[1].num, record[1].den)
     THEN fr' = None /\ outcome' = "panic"
     ELSE fr' = Some(DeserializeValue(record[1])) /\ outcome' = "ok"
  /\ frOf' = Origin("deserialize", <<record[1].num, record[1].den>>, recordOf)
  /\ op' = "deserialize" /\ cmp' = None
  /\ UNCHANGED <<ratio, ratioOf, record, recordOf>>

\* the values the caller can compare the one it holds with
Operands ==
  {Named(t) : t \in NamedTags}
    \cup {FrCustom(RatioNew(p[1], p[2])) : p \in BroadcastPairs}
    \cup {x[1] : x \in {frOf.of, ratioOf, recordOf} \ {None}}

\* a == b
Compare ==
  /\ Running
  /\ fr # None
  /\ \E b \in Operands :
       cmp' = Some([a |-> fr[1], b |-> b, eq |-> FrameRateEq(fr[1], b)])
  /\ op' = "eq" /\ outcome' = "ok"
  /\ UNCHANGED <<fr, frOf, ratio, ratioOf, record, recordOf>>

Next ==
  \/ ConstructNamed
  \/ ConstructCustom
  \/ New
  \/ NewRatio
  \/ ReceiveRecord
  \/ ToRational
  \/ Normalize
  \/ Serialize
  \/ Deserialize
  \/ Compare

Spec == Init /\ [][Next]_vars

(* ------------------- the documented table (spec 4.1) ------------------- *)

SpecTable ==
  {<<"_24_00", 24, 1>>, <<"_25_00", 25, 1>>, <<"_30_00", 30, 1>>,
   <<"_50_00", 50, 1>>, <<"_60_00", 60, 1>>, <<"_120_00", 120, 1>>,
   <<"_23_97", 24000, 1001>>, <<"_24_97", 25000, 1001>>,
   <<"_29_97", 30000, 1001>>, <<"_59_94", 60000, 1001>>}

SpecPairs == {<<e[2], e[3]>> : e \in SpecTable}

Min(a, b) == IF a < b THEN a ELSE b

\* a/b is in lowest terms: no common divisor above 1, and zero is 0/1
LowestTerms(a, b) ==
  /\ b # 0
  /\ a = 0 => b = 1
  /\ \A k \in 2..Min(a, b) : ~(a % k = 0 /\ b % k = 0)

\* (n, d) is (k*a, k*b) for some k >= 1
Multiple(n, d, a, b) ==
  /\ d % b = 0
  /\ IF a = 0 THEN n = 0 ELSE n % a = 0 /\ n \div a = d \div b

\* a/b is the reduced form of n/d
ReducedFormOf(a, b, n, d) == LowestTerms(a, b) /\ Multiple(n, d, a, b)

\* v is normalize(reduce(n/d)) as the documentation defines it
IsNormalFormOf(v, n, d) ==
  \/ /\ v.tag = "FrCustom"
     /\ ReducedFormOf(v.rational.numer, v.rational.denom, n, d)
     /\ <<v.rational.numer, v.rational.denom>> \notin SpecPairs
  \/ \E e \in SpecTable :
       /\ v = Named(e[1])
       /\ ReducedFormOf(e[2], e[3], n, d)

(* ------------------------------ claims --------------------------------- *)

\* C1: round trip.  For every FrameRate value v, the custom variant built
\* from a named rational included, deserialize(serialize(v)) == v.
C1_RoundTrip ==
  (op = "deserialize" /\ frOf.of # None) =>
    /\ outcome = "ok"
    /\ fr # None
    /\ FrameRateEq(fr[1], frOf.of[1])

\* C2: a == b if and only if to_rational(a) and to_rational(b) are the same
\* reduced rational, however a and b were constructed.
C2_EqualityIsRationalEquality ==
  cmp # None =>
    (cmp[1].eq <=> RatioFromFrameRate(cmp[1].a) = RatioFromFrameRate(cmp[1].b))

\* C3: deserializing {num: n, den: 0} reports an error outcome to the caller
\* and produces no FrameRate value.
C3_ZeroDenIsError ==
  (op = "deserialize" /\ IsU32(frOf.arg[1]) /\ frOf.arg[2] = 0) =>
    (outcome = "err" /\ fr = None)

\* C4: for every record {n, d} of u32 with d # 0, deserialize returns
\* normalize(reduce(n/d)): the named constant of the reduced pair when there is
\* one, else the custom variant holding the reduced rational; records denoting
\* the same rational deserialize to equal values.
C4_DeserializeNormalizes ==
  (op = "deserialize" /\ IsU32(frOf.arg[1]) /\ IsU32(frOf.arg[2])
     /\ frOf.arg[2] # 0) =>
    /\ outcome = "ok"
    /\ fr # None
    /\ IsNormalFormOf(fr[1], frOf.arg[1], frOf.arg[2])
    /\ \A p \in Pairs :
         (p[2] # 0 /\ IsNormalFormOf(fr[1], p[1], p[2])) =>
           FrameRateEq(DeserializeValue(SerializeRational(p[1], p[2])), fr[1])

C4_Witness ==
  /\ op = "deserialize"
  /\ frOf.arg = <<6, 9>>
  /\ fr = Some(FrCustom(Ratio(2, 3)))

\* C5: serialize(v) is the record of v's rational in lowest terms: the table
\* pair of a named rate, the reduced pair of r for custom(r).
C5_SerializeReducedPair ==
  op = "serialize" =>
    /\ record # None
    /\ fr # None
    /\ LowestTerms(record[1].num, record[1].den)
    /\ fr[1].tag \in NamedTags =>
         <<fr[1].tag, record[1].num, record[1].den>> \in SpecTable
    /\ fr[1].tag = "FrCustom" =>
         /\ record[1].num = fr[1].rational.numer
         /\ record[1].den = fr[1].rational.denom
    /\ frOf.by = "custom" =>
         Multiple(frOf.arg[1], frOf.arg[2], record[1].num, record[1].den)

C5_Witness ==
  /\ op = "serialize"
  /\ frOf.by = "custom"
  /\ frOf.arg = <<6, 9>>
  /\ record = Some(SerializeRational(2, 3))

\* C6: FrameRate::new(n, d) == FrameRate::new(k*n, k*d) for every k >= 1;
\* new(200, 4) is the rate-50 constant and new(6, 9) equals custom(2/3).
C6_NewReductionInvariant ==
  (op = "new" /\ outcome = "ok") =>
    /\ fr # None
    /\ \A k \in 1..MaxScale :
         FrameRateEq(fr[1], FrameRateNew(k * frOf.arg[1], k * frOf.arg[2]))
    /\ \A p \in Pairs :
         (p[2] # 0 /\ \E k \in 1..MaxScale :
                        frOf.arg = <<k * p[1], k * p[2]>>) =>
           FrameRateEq(fr[1], FrameRateNew(p[1], p[2]))
    /\ frOf.arg = <<200, 4>> => fr[1] = Named("_50_00")
    /\ frOf.arg = <<6, 9>> => FrameRateEq(fr[1], FrCustom(Ratio(2, 3)))

C6_Witness ==
  /\ op = "new"
  /\ frOf.arg = <<200, 4>>
  /\ fr = Some(Named("_50_00"))

\* C7: for each of the ten named rates, normalize(to_rational(rate)) == rate.
C7_NamedRoundTrip ==
  (op = "normalize" /\ frOf.of # None /\ frOf.of[1].tag \in NamedTags) =>
    fr = frOf.of

C7_Witness ==
  /\ op = "normalize"
  /\ frOf.of = Some(Named("_24_97"))
  /\ fr = Some(Named("_24_97"))

\* C8: to_rational returns exactly the table value of each named variant and
\* r unchanged for custom(r); custom built from 6/9 yields 2/3.
C8_ToRationalTable ==
  op = "to_rational" =>
    /\ ratio # None
    /\ fr # None
    /\ fr[1].tag \in NamedTags =>
         <<fr[1].tag, ratio[1].numer, ratio[1].denom>> \in SpecTable
    /\ fr[1].tag = "FrCustom" => ratio[1] = fr[1].rational
    /\ (frOf.by = "custom" /\ frOf.arg = <<6, 9>>) => ratio[1] = Ratio(2, 3)

C8_Witness ==
  /\ op = "to_rational"
  /\ fr = Some(Named("_59_94"))
  /\ ratio = Some(Ratio(60000, 1001))

\* C9: every value returned by FrameRate::new, by normalization or by
\* deserialization, wherever in a computation, is canonical: custom only when
\* its rational is none of the ten named pairs, and that rational is in lowest
\* terms with a non-zero denominator.
C9_Canonical ==
  (frOf.by \in {"new", "normalize", "deserialize"} /\ fr # None) =>
    (fr[1].tag = "FrCustom" =>
       /\ LowestTerms(fr[1].rational.numer, fr[1].rational.denom)
       /\ <<fr[1].rational.numer, fr[1].rational.denom>> \notin SpecPairs)

C9_Witness ==
  /\ op = "normalize"
  /\ frOf.of = Some(FrCustom(Ratio(120, 1)))
  /\ fr = Some(Named("_120_00"))

\* C10: to_rational(normalize(r)) is the reduced form of r = n/d (n = 0
\* included); the ten named rates have pairwise distinct rationals; and
\* serialize(deserialize({n, d})) is the reduced pair of n/d.
C10_NormalizePreservesValue ==
  /\ (op = "to_rational" /\ frOf.by \in {"new", "normalize"}) =>
       /\ ratio # None
       /\ ReducedFormOf(ratio[1].numer, ratio[1].denom,
                        frOf.arg[1], frOf.arg[2])
  /\ (op = "serialize" /\ frOf.by = "deserialize") =>
       /\ record # None
       /\ ReducedFormOf(record[1].num, record[1].den,
                        frOf.arg[1], frOf.arg[2])
  /\ \A t1, t2 \in NamedTags :
       t1 # t2 => RatioFromFrameRate(Named(t1)) # RatioFromFrameRate(Named(t2))

C10_Witness ==
  /\ op = "to_rational"
  /\ frOf.by = "new"
  /\ frOf.arg = <<0, 5>>
  /\ ratio = Some(Ratio(0, 1))

====
